---- MODULE Spec2Model ----
(***************************************************************************)
(* A model of the POS analysis toolkit (src/src/utils.py, heatmap.py,      *)
(* ave_ticket_by_day.py, each_day_hourly.py).                              *)
(*                                                                         *)
(* A table (DataFrame) is a non-empty sequence of rows; a row is a record  *)
(* whose fields are the table's columns.  Prices are whole currency units, *)
(* sums are exact integers, and a value rounded to two decimals is kept as *)
(* an integer number of hundredths.  A missing value (None / NaN) is the   *)
(* value NA.  A timestamp is [day, hour]: day counts the days since        *)
(* 2024-01-01, a Monday.                                                   *)
(***************************************************************************)
EXTENDS Integers, Sequences, FiniteSets, TLC

\* ------------------------------------------------------------------ bounds
MaxRows == 2          \* distinct records of an input table
MaxPayRows == 3       \* the same, for the tables of the payment analysis
Dup == 10             \* length of the block of duplicated records
MaxDay == 8           \* timestamps fall on days 0 .. MaxDay
MaxAppended == 1      \* records appended to an analyzer's table afterwards

\* -------------------------------------------------------- program constants
SigmaMult == 3                 \* mean +/- 3 * std
DefaultMinTransactions == 10   \* analyze_server_performance(min_transactions=10)
FirstHour == 11                \* expected_hours = range(11, 23)
LastHour == 22

NA == "<NA>"

DayNames == <<"Monday", "Tuesday", "Wednesday", "Thursday", "Friday", "Saturday", "Sunday">>

required_columns ==
    {"timestamp", "location", "server_id", "table_number",
     "item_name", "item_category", "price", "payment_type"}

VARIABLES
    env,            \* the DB_* environment variables that are set
    lpc,            \* position of the load_pos_data call
    from_database,  \* the mode flag of the call
    src_cols,       \* the columns the source would deliver
    src_ok,         \* whether the source can be read at all
    loaded,         \* columns of the table read inside load_pos_data ({} before)
    attempts,       \* calls of get_database_connection so far
    engines,        \* engines created so far
    queries,        \* queries attempted so far
    log,            \* log records emitted by the loader
    err,            \* the exception raised inside the try block, or NoError
    exc,            \* the exception that reached the caller, or NoError
    ret,            \* the columns of the returned table ({} when none is returned)
    df,             \* the caller's table
    self_df,        \* the analyzer's table (<<>> before construction)
    origin,         \* for each row of self_df its position in the table built
                    \* by the constructor (0 for a row appended afterwards)
    out,            \* what the last operation returned
    files           \* names of the files written by generate_report

vars == <<env, lpc, from_database, src_cols, src_ok, loaded, attempts, engines, queries,
          log, err, exc, ret, df, self_df, origin, out, files>>

loaderVars == <<env, lpc, from_database, src_cols, src_ok, loaded, attempts,
                engines, queries, log, err, exc, ret>>

analyzerVars == <<df, self_df, origin, out, files>>

\* ----------------------------------------------------------------- helpers
Abs(x) == IF x < 0 THEN -x ELSE x

RECURSIVE SumSeq(_)
SumSeq(s) == IF s = <<>> THEN 0 ELSE Head(s) + SumSeq(Tail(s))

RECURSIVE Repeat(_, _)
Repeat(x, n) == IF n = 0 THEN <<>> ELSE <<x>> \o Repeat(x, n - 1)

\* a / b rounded to the nearest integer, ties to even (numpy's round), b # 0
RoundDiv(a, b) ==
    LET n == IF b > 0 THEN a ELSE -a
        d == Abs(b)
        q == n \div d
        r == n % d
    IN  IF 2 * r < d THEN q
        ELSE IF 2 * r > d THEN q + 1
        ELSE IF q % 2 = 0 THEN q ELSE q + 1

\* Series.dt.day_name() / .dt.date / .dt.hour
day_name(ts) == DayNames[(ts.day % 7) + 1]

\* the values of column c, in row order
Column(t, c) == [i \in 1..Len(t) |-> t[i][c]]

\* groupby keys: the distinct non-missing values of column c (dropna=True)
Keys(t, c) == {t[i][c] : i \in 1..Len(t)} \ {NA}

\* the rows of group k of column c, in row order
Group(t, c, k) == SelectSeq(t, LAMBDA r : r[c] = k)

\* agg 'count', 'sum', 'nunique' of a column over a group of rows
\* (a price is never missing in the tables of this model)
Count(g, c) == IF c = "price" THEN Len(g) ELSE Len(SelectSeq(g, LAMBDA r : r[c] # NA))
Sum(g, c) == SumSeq([i \in 1..Len(g) |-> g[i][c]])
NUnique(g, c) == Cardinality({g[i][c] : i \in 1..Len(g)} \ {NA})

\* agg 'mean' followed by .round(2): hundredths
MeanRound2(g, c) == RoundDiv(100 * Sum(g, c), Count(g, c))

\* ------------------------------------------------------- POSDataAnalyzer
\* groupby('item_name')['price'].agg(['mean', 'std']): the mean is sum / n and
\* the sample standard deviation is sqrt(dev / (n * (n - 1))) with
\* dev = n * sum(p^2) - sum(p)^2; it is NaN for a group of one row.
PriceStats(t, item) ==
    LET g == Group(t, "item_name", item)
        n == Len(g)
        s == Sum(g, "price")
        q == SumSeq([i \in 1..n |-> g[i].price * g[i].price])
    IN  [n |-> n, sum |-> s, dev |-> n * q - s * s]

\* a NaN bound (the std of a single row, or no statistics row to merge)
NaNBound == [nan |-> TRUE, n |-> 0, sum |-> 0, dev |-> 0, k |-> 0]

\* mean + k * std as an exact value: NaN when std is NaN
Bound(st, k) ==
    IF st.n < 2 THEN NaNBound
    ELSE [nan |-> FALSE, n |-> st.n, sum |-> st.sum, dev |-> st.dev, k |-> k]

\* p > b and p < b for a bound b = sum/n + k * sqrt(dev / (n (n-1))); a
\* comparison with NaN is False.  With a = n p - sum the sign of p - mean is
\* the sign of a, and (p - mean)^2 ? k^2 std^2 is a^2 (n-1) ? k^2 dev n.
Greater(p, b) ==
    IF b.nan THEN FALSE
    ELSE LET a == b.n * p - b.sum
             l == a * a * (b.n - 1)
             r == b.k * b.k * b.dev * b.n
         IN  IF b.k >= 0 THEN a > 0 /\ l > r
             ELSE a >= 0 \/ l < r

Less(p, b) ==
    IF b.nan THEN FALSE
    ELSE LET a == b.n * p - b.sum
             l == a * a * (b.n - 1)
             r == b.k * b.k * b.dev * b.n
         IN  IF b.k <= 0 THEN a < 0 /\ l > r
             ELSE a <= 0 \/ l < r

\* Series.fillna('UNKNOWN')
fillna(v) == IF v = NA THEN "UNKNOWN" ELSE v

\* the flag written as "not within the band": True against a NaN bound
price_anomaly_NotBetween(p, upper, lower) ==
    ~ (~ upper.nan /\ ~ Greater(p, upper) /\ ~ lower.nan /\ ~ Less(p, lower))
\* the flag testing the upper bound only
price_anomaly_UpperOnly(p, upper, lower) == Greater(p, upper)
\* (price > upper_bound) | (price < lower_bound)
price_anomaly(p, upper, lower) == Greater(p, upper) \/ Less(p, lower)

\* _preprocess_data on the table t: derived time columns, payment_type
\* filled, the bounds of the row's item merged in (how='left': every row is
\* kept, in order; an item without a statistics row gets NaN bounds), the flag.
preprocess_data(t) ==
    LET stats == [k \in Keys(t, "item_name") |-> PriceStats(t, k)]
        upper(r) == IF r.item_name \in DOMAIN stats
                    THEN Bound(stats[r.item_name], SigmaMult) ELSE NaNBound
        lower(r) == IF r.item_name \in DOMAIN stats
                    THEN Bound(stats[r.item_name], -SigmaMult) ELSE NaNBound
    IN  [i \in 1..Len(t) |->
            LET r == t[i]
            IN  [timestamp |-> r.timestamp, location |-> r.location,
                 server_id |-> r.server_id, table_number |-> r.table_number,
                 item_name |-> r.item_name, item_category |-> r.item_category,
                 price |-> r.price,
                 payment_type |-> fillna(r.payment_type),
                 date |-> r.timestamp.day, hour |-> r.timestamp.hour,
                 day_of_week |-> day_name(r.timestamp),
                 upper_bound |-> upper(r), lower_bound |-> lower(r),
                 price_anomaly |-> price_anomaly(r.price, upper(r), lower(r))]]

\* ------------------------------------------------------------- aggregators
\* the distinct values of a column that is never missing (date, hour)
Values(t, c) == {t[i][c] : i \in 1..Len(t)}

RECURSIVE SumOver(_, _)
SumOver(S, f) ==
    IF S = {} THEN 0
    ELSE LET x == CHOOSE y \in S : TRUE IN f[x] + SumOver(S \ {x}, f)

Min(S) == CHOOSE x \in S : \A y \in S : x <= y
Max(S) == CHOOSE x \in S : \A y \in S : x >= y

\* the anomaly count taken from flags recomputed over the table at hand
Anomalies_Recomputed(g) == Len(SelectSeq(preprocess_data(g), LAMBDA r : r.price_anomaly))
\* agg 'sum' of the boolean column price_anomaly, as stored in the table
Anomalies(g) == Len(SelectSeq(g, LAMBDA r : r.price_anomaly))

get_basic_stats(t) ==
    [date_range |-> <<Min(Values(t, "date")), Max(Values(t, "date"))>>,
     total_sales |-> Sum(t, "price"),
     total_transactions |-> Len(t),
     unique_locations |-> NUnique(t, "location"),
     unique_servers |-> NUnique(t, "server_id"),
     price_anomalies |-> Anomalies(t)]

analyze_daily_trends(t) ==
    [d \in Values(t, "date") |->
        LET g == Group(t, "date", d)
        IN  [transaction_count |-> Count(g, "price"),
             total_sales |-> Sum(g, "price"),
             avg_ticket |-> MeanRound2(g, "price"),
             items_sold |-> Count(g, "item_name"),
             active_servers |-> NUnique(g, "server_id")]]

analyze_hourly_patterns(t) ==
    [h \in Values(t, "hour") |->
        LET g == Group(t, "hour", h)
        IN  [price_count |-> Count(g, "price"),
             price_sum |-> Sum(g, "price"),
             price_mean |-> MeanRound2(g, "price"),
             item_name_count |-> Count(g, "item_name")]]

\* server_metrics['transaction_count'] >= min_transactions
keep_server_Strict(count, min_transactions) == count > min_transactions
keep_server(count, min_transactions) == count >= min_transactions

\* the rows of the server table, before sort_values
server_metrics(t, min_transactions) ==
    LET all == [s \in Keys(t, "server_id") |->
                   LET g == Group(t, "server_id", s)
                   IN  [server_id |-> s,
                        transaction_count |-> Count(g, "price"),
                        total_sales |-> Sum(g, "price"),
                        avg_ticket |-> MeanRound2(g, "price"),
                        items_sold |-> Count(g, "item_name"),
                        price_anomalies |-> Anomalies(g),
                        items_per_transaction |->
                            RoundDiv(100 * Count(g, "item_name"), Count(g, "price"))]]
    IN  {all[s] : s \in {x \in DOMAIN all :
                            keep_server(all[x].transaction_count, min_transactions)}}

\* sort_values('total_sales', ascending=False): the orders of the rows the
\* sort may produce (the order of rows with equal sales is not fixed)
SortedDescending(rows) ==
    {q \in [1..Cardinality(rows) -> rows] :
        /\ \A i, j \in DOMAIN q : i # j => q[i] # q[j]
        /\ \A i, j \in DOMAIN q : i < j => q[i].total_sales >= q[j].total_sales}

analyze_menu_performance(t) ==
    <<[k \in Keys(t, "item_name") |->
          LET g == Group(t, "item_name", k)
          IN  [quantity_sold |-> Count(g, "price"),
               total_revenue |-> Sum(g, "price"),
               avg_price |-> MeanRound2(g, "price"),
               price_anomalies |-> Anomalies(g)]],
      [k \in Keys(t, "item_category") |->
          LET g == Group(t, "item_category", k)
          IN  [quantity_sold |-> Count(g, "price"),
               total_revenue |-> Sum(g, "price"),
               avg_price |-> MeanRound2(g, "price"),
               unique_items |-> NUnique(g, "item_name")]]>>

analyze_location_performance(t) ==
    [l \in Keys(t, "location") |->
        LET g == Group(t, "location", l)
        IN  [price_count |-> Count(g, "price"),
             price_sum |-> Sum(g, "price"),
             price_mean |-> MeanRound2(g, "price"),
             item_name_count |-> Count(g, "item_name"),
             server_id_nunique |-> NUnique(g, "server_id")]]

\* a float result: a number of hundredths, or nan / inf / -inf
Num(v) == [kind |-> "num", v |-> v]
NaN == [kind |-> "nan", v |-> 0]
Inf == [kind |-> "inf", v |-> 0]
NegInf == [kind |-> "-inf", v |-> 0]

\* (total_sales / total_sales.sum() * 100).round(2), in hundredths of a
\* per cent; a division by zero gives nan or +/- inf, no error
\* (the same without "* 100": shares of 1)
sales_percentage_Fraction(total, all) ==
    IF all = 0
    THEN (IF total > 0 THEN Inf ELSE IF total < 0 THEN NegInf ELSE NaN)
    ELSE Num(RoundDiv(total * 100, all))
sales_percentage(total, all) ==
    IF all = 0
    THEN (IF total > 0 THEN Inf ELSE IF total < 0 THEN NegInf ELSE NaN)
    ELSE Num(RoundDiv(total * 10000, all))

analyze_payment_types(t) ==
    LET totals == [k \in Keys(t, "payment_type") |-> Sum(Group(t, "payment_type", k), "price")]
        all == SumOver(DOMAIN totals, totals)
    IN  [k \in DOMAIN totals |->
            LET g == Group(t, "payment_type", k)
            IN  [transaction_count |-> Count(g, "price"),
                 total_sales |-> totals[k],
                 avg_ticket |-> MeanRound2(g, "price"),
                 sales_percentage |-> sales_percentage(totals[k], all)]]

\* generate_report: the report and, for a destination path, the sections
\* written.  Each section carries the type of the value the aggregator returns.
Section(type, data) == [type |-> type, data |-> data]

report(t, server_rows) ==
    [basic_stats |-> Section("dict", get_basic_stats(t)),
     daily_trends |-> Section("DataFrame", analyze_daily_trends(t)),
     hourly_patterns |-> Section("DataFrame", analyze_hourly_patterns(t)),
     server_performance |-> Section("DataFrame", server_rows),
     menu_performance |-> Section("tuple", analyze_menu_performance(t)),
     location_performance |-> Section("DataFrame", analyze_location_performance(t)),
     payment_analysis |-> Section("DataFrame", analyze_payment_types(t))]

\* if output_path: for name, data in report.items():
\*     if isinstance(data, pd.DataFrame): data.to_csv(f"{output_path}/{name}.csv")
written(rep, output_path) ==
    IF output_path \in {NA, ""} THEN {}
    ELSE {[dir |-> output_path, name |-> name] :
            name \in {n \in DOMAIN rep : rep[n].type = "DataFrame"}}

\* ------------------------------------------------------------- heatmap.py
\* DataFrame.reindex(index, fill_value): a row per key of index, in place of
\* the rows there were
reindex_Existing(f, index, fill_value) == [k \in index \cap DOMAIN f |-> f[k]]
reindex(f, index, fill_value) ==
    [k \in index |-> IF k \in DOMAIN f THEN f[k] ELSE fill_value]

\* the data create_location_hour_heatmap draws: average orders, in tenths
heatmap_data(t) ==
    LET location_days ==
            [l \in Keys(t, "location") |-> Cardinality(Values(Group(t, "location", l), "date"))]
        pairs == {<<t[i].location, t[i].hour>> : i \in {j \in 1..Len(t) : t[j].location # NA}}
        hourly_totals ==
            [pr \in pairs |->
                Len(SelectSeq(t, LAMBDA r : r.location = pr[1] /\ r.hour = pr[2]))]
        all_combinations == (DOMAIN location_days) \X (FirstHour..LastHour)
        filled == reindex(hourly_totals, all_combinations, 0)
        avg_orders == [pr \in DOMAIN filled |-> RoundDiv(10 * filled[pr], location_days[pr[1]])]
    IN  [l \in {pr[1] : pr \in DOMAIN avg_orders} |->
            [h \in {pr[2] : pr \in {x \in DOMAIN avg_orders : x[1] = l}} |->
                avg_orders[<<l, h>>]]]

\* ---------------------------------------------------- ave_ticket_by_day.py
\* groupby sorts its keys: the weekday names in alphabetical order
SortedDayNames ==
    <<"Friday", "Monday", "Saturday", "Sunday", "Thursday", "Tuesday", "Wednesday">>

\* df.groupby(df['timestamp'].dt.day_name()).agg(...).round(2)
daily_avg_grouped(t) ==
    LET present == SelectSeq(SortedDayNames,
                             LAMBDA d : \E i \in 1..Len(t) : day_name(t[i].timestamp) = d)
    IN  [i \in 1..Len(present) |->
            LET g == SelectSeq(t, LAMBDA r : day_name(r.timestamp) = present[i])
            IN  [day |-> present[i],
                 avg_ticket |-> Num(MeanRound2(g, "price")),
                 num_orders |-> Num(Count(g, "price")),
                 total_revenue |-> Num(Sum(g, "price"))]]

\* daily_avg.reindex([...]): the rows in the order of days, a row of NaN for
\* a day that has none
reindex_days_Skipped(rows, days) == rows
reindex_days(rows, days) ==
    [i \in 1..Len(days) |->
        IF \E j \in 1..Len(rows) : rows[j].day = days[i]
        THEN rows[CHOOSE j \in 1..Len(rows) : rows[j].day = days[i]]
        ELSE [day |-> days[i], avg_ticket |-> NaN, num_orders |-> NaN, total_revenue |-> NaN]]

daily_avg(t) == reindex_days(daily_avg_grouped(t), DayNames)

\* ------------------------------------------------------ each_day_hourly.py
\* df['day_of_week'] = ...; df['hour'] = ...; df['date'] = ...: the columns are
\* assigned onto the table the function was given
add_time_columns(t) ==
    [i \in 1..Len(t) |->
        [timestamp |-> t[i].timestamp, location |-> t[i].location,
         server_id |-> t[i].server_id, table_number |-> t[i].table_number,
         item_name |-> t[i].item_name, item_category |-> t[i].item_category,
         price |-> t[i].price, payment_type |-> t[i].payment_type,
         day_of_week |-> day_name(t[i].timestamp), hour |-> t[i].timestamp.hour,
         date |-> t[i].timestamp.day]]

\* days_count = df.groupby('day_of_week')['date'].nunique()
days_count(t) ==
    [d \in Keys(t, "day_of_week") |->
        Cardinality(Values(Group(t, "day_of_week", d), "date"))]

\* hourly_volume: per (weekday, hour) bucket the order count and the count
\* divided by days_count of the weekday, rounded to one decimal (tenths)
hourly_volume(t) ==
    [b \in {<<t[i].day_of_week, t[i].hour>> : i \in 1..Len(t)} |->
        LET n == Len(SelectSeq(t, LAMBDA r : r.day_of_week = b[1] /\ r.hour = b[2]))
        IN  [order_count |-> n, avg_orders |-> RoundDiv(10 * n, days_count(t)[b[1]])]]

\* for day in days_order: day_count = days_count[day]: the weekdays whose
\* lookup raises KeyError
absent_days(t) == {DayNames[i] : i \in {j \in 1..7 : DayNames[j] \notin DOMAIN days_count(t)}}

\* __init__: self.df = df.copy().  What the constructor leaves in the caller's
\* table: without the copy the column assignments of _preprocess_data, made
\* before merge rebinds self.df, would land in the caller's table.
init_caller_table_NoCopy(t) ==
    [i \in 1..Len(t) |->
        [timestamp |-> t[i].timestamp, location |-> t[i].location,
         server_id |-> t[i].server_id, table_number |-> t[i].table_number,
         item_name |-> t[i].item_name, item_category |-> t[i].item_category,
         price |-> t[i].price, payment_type |-> fillna(t[i].payment_type),
         date |-> t[i].timestamp.day, hour |-> t[i].timestamp.hour,
         day_of_week |-> day_name(t[i].timestamp)]]
init_caller_table(t) == t

\* ------------------------------------------------------------- the loader
\* db_params: the connection parameter read from each environment variable
db_params ==
    [user |-> "DB_USER", password |-> "DB_PASSWORD", host |-> "DB_HOST",
     port |-> "DB_PORT", database |-> "DB_NAME"]

\* missing_params = [k for k, v in db_params.items() if v is None]
missing_params_NoHost(e) == {k \in DOMAIN db_params \ {"host"} : db_params[k] \notin e}
missing_params(e) == {k \in DOMAIN db_params : db_params[k] \notin e}

\* missing_columns = set(required_columns) - set(df.columns)
missing_columns_Reversed(columns) == columns \ required_columns
missing_columns(columns) == required_columns \ columns

\* an exception: its type, what it is about, and the names its message lists
Error(type, about, missing) == [type |-> type, about |-> about, missing |-> missing]
NoError == Error("none", "none", {})

\* except Exception as e: ... raise
reraised(e) == e

\* --------------------------------------------------------------- the inputs
Category(item) == IF item = "Burger" THEN "Main" ELSE "Beverage"

Row(day, hour, loc, srv, item, price, pay) ==
    [timestamp |-> [day |-> day, hour |-> hour], location |-> loc,
     server_id |-> srv, table_number |-> "T1", item_name |-> item,
     item_category |-> Category(item), price |-> price, payment_type |-> pay]

\* records that differ in item, price and payment type
ItemRows ==
    {Row(0, 12, "Downtown", "S001", i, p, pay) :
        i \in {"Burger", "Soda"}, p \in {-1, 10}, pay \in {"CASH", NA}}
\* records that differ in payment type and price
PayRows ==
    {Row(0, 12, "Downtown", "S001", "Burger", p, pay) :
        p \in {-1, 5}, pay \in {"CASH", "CREDIT", NA}}
\* records that differ in server and price
ServerRows ==
    {Row(0, 12, "Downtown", s, "Burger", p, "CASH") :
        s \in {"S001", "S002", NA}, p \in {1, 10}}
\* records that differ in location, hour and date
PlaceRows ==
    {Row(d, h, l, "S001", "Burger", 10, "CASH") :
        d \in {0, 1}, h \in {12, 23}, l \in {"Downtown", "Mall"}}
\* records that differ in date and price
DayRows ==
    {Row(d, 12, "Downtown", "S001", "Burger", p, "CASH") :
        d \in {0, 1, 6, MaxDay}, p \in {1, 10}}

SeqsUpTo(R, m) == UNION {[1..n -> R] : n \in 1..m}

\* up to MaxRows records, the last of which may occur Dup times in a row
\* (duplicated records are usual in POS exports)
Tables(R, m) ==
    {b \o Repeat(b[Len(b)], k) : b \in SeqsUpTo(R, m), k \in {0, Dup - 1}}

NoResult == [op |-> "none"]

LoaderIdle ==
    /\ lpc = "idle" /\ from_database = FALSE /\ loaded = {} /\ attempts = 0 /\ engines = 0
    /\ queries = 0 /\ log = <<>> /\ err = NoError /\ exc = NoError /\ ret = {}

\* before the analysis of the table t
InitTable(T) ==
    /\ df \in T
    /\ self_df = <<>> /\ origin = <<>> /\ out = NoResult /\ files = {}
    /\ env = {db_params[k] : k \in DOMAIN db_params}
    /\ src_cols = required_columns /\ src_ok = TRUE
    /\ LoaderIdle

InitItems == InitTable(Tables(ItemRows, MaxRows))
InitPayments == InitTable(Tables(PayRows, MaxPayRows))
InitServers == InitTable(Tables(ServerRows, MaxRows))
InitPlaces == InitTable(Tables(PlaceRows, MaxRows))
InitDays == InitTable(Tables(DayRows, MaxRows))

constructed == self_df # <<>>

\* analyzer = POSDataAnalyzer(df)
Construct ==
    /\ self_df = <<>>
    /\ self_df' = preprocess_data(df)
    /\ origin' = [i \in 1..Len(df) |-> i]
    /\ df' = init_caller_table(df)
    /\ out' = [op |-> "__init__"]
    /\ UNCHANGED <<files, loaderVars>>

\* analyzer.analyze_payment_types()
AnalyzePaymentTypes ==
    /\ constructed
    /\ out' = [op |-> "analyze_payment_types", result |-> analyze_payment_types(self_df)]
    /\ UNCHANGED <<df, self_df, origin, files, loaderVars>>

\* analyzer.analyze_server_performance(): given says whether the caller
\* passes min_transactions
AnalyzeServerPerformance ==
    /\ constructed
    /\ \E given \in BOOLEAN, m \in 0..2 :
        LET min_transactions == IF given THEN m ELSE DefaultMinTransactions
        IN  /\ ~ given => m = 0
            /\ \E sorted \in SortedDescending(server_metrics(self_df, min_transactions)) :
                  out' = [op |-> "analyze_server_performance",
                          min_transactions |-> min_transactions,
                          result |-> sorted]
    /\ UNCHANGED <<df, self_df, origin, files, loaderVars>>

\* analyzer.generate_report(output_path)
GenerateReport ==
    /\ constructed
    /\ \E sorted \in SortedDescending(server_metrics(self_df, DefaultMinTransactions)) :
          LET rep == report(self_df, sorted)
          IN  \E output_path \in {NA, "", "out"} :
                 /\ files' = files \cup written(rep, output_path)
                 /\ out' = [op |-> "generate_report", output_path |-> output_path,
                            result |-> rep]
    /\ UNCHANGED <<df, self_df, origin, loaderVars>>

\* create_location_hour_heatmap(analyzer)
CreateLocationHourHeatmap ==
    /\ constructed
    /\ out' = [op |-> "create_location_hour_heatmap", result |-> heatmap_data(self_df)]
    /\ UNCHANGED <<df, self_df, origin, files, loaderVars>>

\* analyze_daily_average_tickets(df), on the loaded table
AnalyzeDailyAverageTickets ==
    /\ out' = [op |-> "analyze_daily_average_tickets", result |-> daily_avg(df)]
    /\ UNCHANGED <<df, self_df, origin, files, loaderVars>>

Next ==
    \/ Construct
    \/ AnalyzePaymentTypes
    \/ AnalyzeServerPerformance
    \/ GenerateReport
    \/ CreateLocationHourHeatmap
    \/ AnalyzeDailyAverageTickets

\* the analysis of one table, for each family of input tables
SpecItems == InitItems /\ [][Next]_vars
SpecPayments == InitPayments /\ [][Next]_vars
SpecServers == InitServers /\ [][Next]_vars
SpecPlaces == InitPlaces /\ [][Next]_vars
SpecDays == InitDays /\ [][Next]_vars

\* tables that cover every weekday, or only some: a week of one record a day
\* may precede the records of the table
FullWeek == [i \in 1..7 |-> Row(i - 1, 12, "Downtown", "S001", "Burger", 10, "CASH")]
InitWeeks == InitTable({w \o t : w \in {<<>>, FullWeek}, t \in Tables(DayRows, MaxRows)})

\* analyze_daily_hourly_patterns(df), on the loaded table: the columns are
\* assigned first; the validation loop looks every weekday up in days_count
\* and raises KeyError at the first one the table does not hold
AnalyzeDailyHourlyPatterns ==
    /\ LET t == add_time_columns(df)
       IN  /\ df' = t
           /\ out' = IF absent_days(t) = {}
                     THEN [op |-> "analyze_daily_hourly_patterns", completed |-> TRUE,
                           error |-> NoError, result |-> hourly_volume(t)]
                     ELSE [op |-> "analyze_daily_hourly_patterns", completed |-> FALSE,
                           error |-> Error("KeyError", "days_count",
                                           {DayNames[Min({j \in 1..7 : DayNames[j] \in absent_days(t)})]}),
                           result |-> <<>>]
    /\ UNCHANGED <<self_df, origin, files, loaderVars>>

\* the aggregators, the hourly volume by weekday included
NextWeeks ==
    \/ Next
    \/ AnalyzeDailyHourlyPatterns

SpecWeeks == InitWeeks /\ [][NextWeeks]_vars

\* ------------------------------------------- the analyzer's table afterwards
\* records of one item that differ in price
SnapshotRows == {Row(0, 12, "Downtown", "S001", "Burger", p, "CASH") : p \in {-1, 10}}
InitSnapshot == InitTable(Tables(SnapshotRows, MaxRows))

\* the rows a later change acts on: the first and the last
Ends(t) == {1, Len(t)}

\* analyzer.df = analyzer.df[mask]: the caller drops a row; the other rows
\* keep all their columns
FilterRows ==
    /\ constructed /\ Len(self_df) > 1
    /\ \E i \in Ends(self_df) :
          LET kept == [k \in 1..(Len(self_df) - 1) |-> IF k < i THEN k ELSE k + 1]
          IN  /\ self_df' = [k \in DOMAIN kept |-> self_df[kept[k]]]
              /\ origin' = [k \in DOMAIN kept |-> origin[kept[k]]]
    /\ out' = NoResult
    /\ UNCHANGED <<df, files, loaderVars>>

\* analyzer.df = pd.concat([analyzer.df, row]): the caller appends a record
\* with all the columns of the table, a copy of its last row
AppendRow ==
    /\ constructed
    /\ Cardinality({k \in 1..Len(origin) : origin[k] = 0}) < MaxAppended
    /\ self_df' = Append(self_df, self_df[Len(self_df)])
    /\ origin' = Append(origin, 0)
    /\ out' = NoResult
    /\ UNCHANGED <<df, files, loaderVars>>

\* analyzer.df.loc[i, 'price'] = p: the caller alters a price
AlterPrice ==
    /\ constructed
    /\ \E i \in Ends(self_df), p \in {-1, 10} :
          /\ p # self_df[i].price
          /\ self_df' = [self_df EXCEPT ![i].price = p]
    /\ out' = NoResult
    /\ UNCHANGED <<df, origin, files, loaderVars>>

\* analyzer.get_basic_stats()
GetBasicStats ==
    /\ constructed
    /\ out' = [op |-> "get_basic_stats", result |-> get_basic_stats(self_df)]
    /\ UNCHANGED <<df, self_df, origin, files, loaderVars>>

\* an analyzer whose table the caller changes between the calls
NextSnapshot ==
    \/ Construct
    \/ FilterRows
    \/ AppendRow
    \/ AlterPrice
    \/ GetBasicStats
    \/ AnalyzePaymentTypes

SpecSnapshot == InitSnapshot /\ [][NextSnapshot]_vars

\* ---------------------------------------------------------- load_pos_data
\* the column sets a source may deliver: required columns may be absent and a
\* column the analysis does not know may be present
SourceColumns ==
    {(required_columns \ drop) \cup extra :
        drop \in SUBSET {"timestamp", "price", "payment_type"},
        extra \in {{}, {"order_id"}}}

\* before load_pos_data is called, for every environment and source
InitLoad ==
    /\ env \in SUBSET {db_params[k] : k \in DOMAIN db_params}
    /\ src_cols \in SourceColumns
    /\ src_ok \in BOOLEAN
    /\ LoaderIdle
    /\ df = <<Row(0, 12, "Downtown", "S001", "Burger", 10, "CASH")>>
    /\ self_df = <<>> /\ origin = <<>> /\ out = NoResult /\ files = {}

\* load_pos_data(source, from_database) is entered
LoadPosData ==
    /\ lpc = "idle"
    /\ \E mode \in BOOLEAN :
          /\ from_database' = mode
          /\ lpc' = IF mode THEN "get_database_connection" ELSE "read_csv"
    /\ UNCHANGED <<env, src_cols, src_ok, loaded, attempts, engines, queries,
                   log, err, exc, ret, analyzerVars>>

\* get_database_connection(): validate the parameters, then create_engine
GetDatabaseConnection ==
    /\ lpc = "get_database_connection"
    /\ attempts' = attempts + 1
    /\ IF missing_params(env) # {}
       THEN /\ err' = Error("ValueError", "environment", missing_params(env))
            /\ lpc' = "except"
            /\ UNCHANGED engines
       ELSE /\ engines' = engines + 1
            /\ lpc' = "read_sql"
            /\ UNCHANGED err
    /\ UNCHANGED <<env, from_database, src_cols, src_ok, loaded, queries, log,
                   exc, ret, analyzerVars>>

\* pd.read_sql(query, engine, parse_dates=['timestamp'])
ReadSql ==
    /\ lpc = "read_sql"
    /\ queries' = queries + 1
    /\ IF src_ok
       THEN loaded' = src_cols /\ lpc' = "validate" /\ UNCHANGED err
       ELSE /\ err' = Error("OperationalError", "source", {})
            /\ lpc' = "except"
            /\ UNCHANGED loaded
    /\ UNCHANGED <<env, from_database, src_cols, src_ok, attempts, engines, log,
                   exc, ret, analyzerVars>>

\* pd.read_csv(file_path, parse_dates=['timestamp']): a file without the
\* column named in parse_dates is rejected by the reader itself
ReadCsv ==
    /\ lpc = "read_csv"
    /\ IF ~ src_ok
       THEN /\ err' = Error("FileNotFoundError", "source", {})
            /\ lpc' = "except"
            /\ UNCHANGED loaded
       ELSE IF "timestamp" \notin src_cols
       THEN /\ err' = Error("ValueError", "parse_dates", {"timestamp"})
            /\ lpc' = "except"
            /\ UNCHANGED loaded
       ELSE loaded' = src_cols /\ lpc' = "validate" /\ UNCHANGED err
    /\ UNCHANGED <<env, from_database, src_cols, src_ok, attempts, engines,
                   queries, log, exc, ret, analyzerVars>>

\* the validation of the required columns, and the return
ValidateColumns ==
    /\ lpc = "validate"
    /\ IF missing_columns(loaded) # {}
       THEN /\ err' = Error("ValueError", "columns", missing_columns(loaded))
            /\ lpc' = "except"
            /\ UNCHANGED <<log, ret>>
       ELSE /\ log' = Append(log, [level |-> "INFO", error |-> NoError])
            /\ ret' = loaded
            /\ lpc' = "returned"
            /\ UNCHANGED err
    /\ UNCHANGED <<env, from_database, src_cols, src_ok, loaded, attempts,
                   engines, queries, exc, analyzerVars>>

\* except Exception as e: logger.error(...); raise
Except ==
    /\ lpc = "except"
    /\ log' = Append(log, [level |-> "ERROR", error |-> err])
    /\ exc' = reraised(err)
    /\ lpc' = "raised"
    /\ UNCHANGED <<env, from_database, src_cols, src_ok, loaded, attempts,
                   engines, queries, err, ret, analyzerVars>>

NextLoad ==
    \/ LoadPosData
    \/ GetDatabaseConnection
    \/ ReadSql
    \/ ReadCsv
    \/ ValidateColumns
    \/ Except

SpecLoad == InitLoad /\ [][NextLoad]_vars

\* ------------------------------------------------------------------ claims

\* the rows of t that carry the item of row i
SameItem(t, i) == {j \in 1..Len(t) : t[j].item_name = t[i].item_name}

\* whether the price of row i lies strictly outside mean +/- 3 sample standard
\* deviations of the prices of its item, recomputed over the table t itself:
\* |p - mean| > 3 std, squared and cleared of denominators
OutsideBand(t, i) ==
    LET n == Cardinality(SameItem(t, i))
        S == SumSeq([j \in 1..Len(t) |-> IF j \in SameItem(t, i) THEN t[j].price ELSE 0])
        Q == SumSeq([j \in 1..Len(t) |->
                        IF j \in SameItem(t, i) THEN t[j].price * t[j].price ELSE 0])
        a == n * t[i].price - S
    IN  n >= 2 /\ a * a * (n - 1) > 9 * n * (n * Q - S * S)

\* C1: after preprocessing every row has a payment type (missing ones became
\* "UNKNOWN") and its price_anomaly flag is what recomputing the band
\* mean +/- 3 std of its item over that same table gives.
C1_FlagsMatchRecomputation ==
    constructed =>
        \A i \in 1..Len(self_df) :
            /\ self_df[i].payment_type # NA
            /\ self_df[i].price_anomaly = OutsideBand(self_df, i)

\* a preprocessed table with a flagged row and a filled-in payment type
C1_Witness ==
    /\ constructed
    /\ \E i \in 1..Len(self_df) : self_df[i].price_anomaly
    /\ \E i \in 1..Len(self_df) :
          df[i].payment_type = NA /\ self_df[i].payment_type = "UNKNOWN"

\* C2: constructing the analyzer leaves the caller's table as it was: same
\* rows, same columns, same values.
C2_CallerTableUntouched ==
    [][(self_df = <<>> /\ self_df' # <<>>) => df' = df]_vars

\* the caller's table still has a missing payment type after construction
C2_Witness ==
    /\ constructed
    /\ \E i \in 1..Len(df) :
          df[i].payment_type = NA /\ self_df[i].payment_type = "UNKNOWN"
    /\ DOMAIN df[1] = required_columns

\* C3: a record whose item occurs once in the table is never flagged.
C3_SingleOccurrenceNeverFlagged ==
    constructed =>
        \A i \in 1..Len(self_df) :
            Cardinality(SameItem(self_df, i)) = 1 => ~ self_df[i].price_anomaly

\* a single-occurrence record with a negative price, unflagged, beside an item
\* that has a band
C3_Witness ==
    /\ constructed
    /\ \E i, j \in 1..Len(self_df) :
          /\ Cardinality(SameItem(self_df, i)) = 1
          /\ self_df[i].price < 0
          /\ ~ self_df[i].price_anomaly
          /\ ~ self_df[j].upper_bound.nan

\* C4 ------------------------------------------------------------------
payment_result == out.op = "analyze_payment_types"

\* the sales_percentage values are numbers whose sum is within half a
\* hundredth of a per cent per payment type of 100
SumsTo100(result) ==
    /\ \A k \in DOMAIN result : result[k].sales_percentage.kind = "num"
    /\ 2 * Abs(SumOver(DOMAIN result, [k \in DOMAIN result |-> result[k].sales_percentage.v])
               - 10000) <= Cardinality(DOMAIN result)

server_result == out.op = "analyze_server_performance"

Transactions(t, s) == Cardinality({i \in 1..Len(t) : t[i].server_id = s})
Servers(t) == {t[i].server_id : i \in 1..Len(t)} \ {NA}
Reported(result) == {result[i].server_id : i \in 1..Len(result)}

\* C5: a server is in the result exactly when its transaction count is at
\* least min_transactions (10 when the caller passes none); with 0 every
\* server of the table is in it.
C5_ServerThreshold ==
    server_result =>
        /\ \A s \in Servers(self_df) :
              s \in Reported(out.result)
                  <=> Transactions(self_df, s) >= out.min_transactions
        /\ Reported(out.result) \subseteq Servers(self_df)
        /\ out.min_transactions = 0 => Reported(out.result) = Servers(self_df)

\* the default threshold keeps a server with exactly 10 transactions and drops
\* another one with fewer
C5_Witness ==
    /\ server_result
    /\ out.min_transactions = DefaultMinTransactions
    /\ \E s, u \in Servers(self_df) :
          /\ Transactions(self_df, s) = DefaultMinTransactions
          /\ s \in Reported(out.result)
          /\ Transactions(self_df, u) < DefaultMinTransactions
          /\ u \notin Reported(out.result)

\* C6 ------------------------------------------------------------------
heatmap_result == out.op = "create_location_hour_heatmap"

Orders(t, l, h) == {i \in 1..Len(t) : t[i].location = l /\ t[i].hour = h}

\* C6: every location of the dataset has a cell for each hour 11..22, and the
\* cell of a pair without orders holds 0.0.
C6_HeatmapComplete ==
    heatmap_result =>
        \A l \in {self_df[i].location : i \in 1..Len(self_df)} \ {NA} :
            /\ l \in DOMAIN out.result
            /\ \A h \in 11..22 :
                  /\ h \in DOMAIN out.result[l]
                  /\ Orders(self_df, l, h) = {} => out.result[l][h] = 0

\* one location has orders only outside 11..22 (a row of zeros), another has a
\* cell above zero
C6_Witness ==
    /\ heatmap_result
    /\ \E l, m \in DOMAIN out.result :
          /\ \A h \in 11..22 : Orders(self_df, l, h) = {} /\ out.result[l][h] = 0
          /\ \E h \in 11..22 : out.result[m][h] > 0

\* C7 ------------------------------------------------------------------
daily_avg_result == out.op = "analyze_daily_average_tickets"

\* C7: the weekday summary has exactly the seven weekday keys, Monday first
\* and Sunday last, whichever weekdays the table holds.
C7_SevenWeekdaysInOrder ==
    daily_avg_result =>
        [i \in 1..Len(out.result) |-> out.result[i].day]
            = <<"Monday", "Tuesday", "Wednesday", "Thursday", "Friday", "Saturday", "Sunday">>

\* a table that holds Sundays and Tuesdays only
C7_Witness ==
    /\ daily_avg_result
    /\ {day_name(df[i].timestamp) : i \in 1..Len(df)} = {"Sunday", "Tuesday"}
    /\ out.result[1].avg_ticket.kind = "nan"
    /\ out.result[7].avg_ticket.kind = "num"

\* C10 -----------------------------------------------------------------
report_result == out.op = "generate_report"

\* C10: with a destination path every tabular section is written to a file
\* named after its key, and basic_stats is not.
C10_EveryTabularSectionPersisted ==
    (report_result /\ out.output_path = "out") =>
        {f.name : f \in {x \in files : x.dir = "out"}}
            = {"daily_trends", "hourly_patterns", "server_performance",
               "menu_performance", "location_performance", "payment_analysis"}

\* C8 ------------------------------------------------------------------
\* C8: a database load with DB_HOST, or another connection parameter, absent
\* fails with the configuration error before an engine is created or a query
\* attempted; the error reaches the caller after a single attempt.
C8_FailsBeforeConnecting ==
    (from_database /\ {"DB_USER", "DB_PASSWORD", "DB_HOST", "DB_PORT", "DB_NAME"} \ env # {}) =>
        /\ engines = 0 /\ queries = 0 /\ ret = {}
        /\ lpc \in {"get_database_connection", "except", "raised"}
        /\ lpc = "raised" =>
              /\ exc.type = "ValueError" /\ exc.about = "environment"
              /\ exc.missing # {}
              /\ attempts = 1

\* the load has failed with DB_HOST alone missing
C8_Witness ==
    /\ lpc = "raised" /\ from_database
    /\ env = {"DB_USER", "DB_PASSWORD", "DB_PORT", "DB_NAME"}
    /\ exc.missing = {"host"}

\* C9 ------------------------------------------------------------------
load_finished == lpc \in {"returned", "raised"}

\* the load failed with `what`: logged as an error, raised unchanged, no table
FailedWith(what) ==
    /\ lpc = "raised"
    /\ err = what /\ exc = what
    /\ log # <<>> /\ log[Len(log)] = [level |-> "ERROR", error |-> what]
    /\ ret = {}

SchemaError(columns) ==
    Error("ValueError", "columns",
          {"timestamp", "location", "server_id", "table_number", "item_name",
           "item_category", "price", "payment_type"} \ columns)

\* C9 as stated: a table that was read is returned when its fields are exactly
\* the required ones, and otherwise the load fails with the schema error.
C9_ExactlyRequiredFields ==
    (load_finished /\ loaded # {}) =>
        IF loaded = required_columns
        THEN lpc = "returned" /\ ret = loaded
        ELSE FailedWith(SchemaError(loaded))

\* C9 amended: a table that was read is returned when it has all the required
\* fields, whatever else it has; otherwise the load fails with the error that
\* lists the missing fields; every failure is logged as an error, raised
\* unchanged, and returns no table.
C9_AllRequiredFields ==
    /\ (load_finished /\ loaded # {}) =>
          IF required_columns \subseteq loaded
          THEN lpc = "returned" /\ ret = loaded
          ELSE FailedWith(SchemaError(loaded))
    /\ lpc = "returned" => required_columns \subseteq ret
    /\ lpc = "raised" => FailedWith(err) /\ err # NoError

\* a table with an extra field and two required fields missing was rejected
C9_Witness ==
    /\ lpc = "raised"
    /\ "order_id" \in loaded
    /\ exc.about = "columns"
    /\ exc.missing = {"timestamp", "payment_type"}

\* C11 -----------------------------------------------------------------
AggregatorOps ==
    {"analyze_payment_types", "analyze_server_performance", "generate_report",
     "create_location_hour_heatmap", "analyze_daily_average_tickets",
     "analyze_daily_hourly_patterns"}

\* C11: a call of an aggregator leaves the table it is given as it was: the
\* same rows, columns and values before and after the call.
C11_AggregatorsLeaveTablesUnchanged ==
    [][out'.op \in AggregatorOps => (df' = df /\ self_df' = self_df)]_vars

\* C12 -----------------------------------------------------------------
hourly_result == out.op = "analyze_daily_hourly_patterns"

DatesOn(t, d) == {t[i].timestamp.day : i \in {j \in 1..Len(t) : day_name(t[j].timestamp) = d}}
OrdersIn(t, d, h) ==
    Cardinality({i \in 1..Len(t) : day_name(t[i].timestamp) = d /\ t[i].timestamp.hour = h})

\* C12: for any table, one that lacks some weekdays included, the call
\* completes and every (weekday, hour) bucket holds its order count divided by
\* the number of distinct dates of the table on that weekday.
C12_CompletesWithPerWeekdayAverage ==
    hourly_result =>
        /\ out.completed
        /\ \A i \in 1..Len(df) :
              LET d == day_name(df[i].timestamp)
                  h == df[i].timestamp.hour
              IN  /\ <<d, h>> \in DOMAIN out.result
                  /\ out.result[<<d, h>>].avg_orders
                        = RoundDiv(10 * OrdersIn(df, d, h), Cardinality(DatesOn(df, d)))

\* C13 -----------------------------------------------------------------
\* the row of the table the constructor built from df that row k of the
\* analyzer's table stems from
AtConstruction(k) == preprocess_data(df)[origin[k]]
survives(k) == origin[k] # 0

\* C13: whatever the caller did to the analyzer's table since construction
\* and whichever aggregators ran, each surviving row still stores the
\* upper_bound, lower_bound and price_anomaly computed by the constructor,
\* and get_basic_stats counts those stored flags.
C13_SnapshotKept ==
    constructed =>
        /\ \A k \in 1..Len(self_df) :
              survives(k) =>
                 /\ self_df[k].upper_bound = AtConstruction(k).upper_bound
                 /\ self_df[k].lower_bound = AtConstruction(k).lower_bound
                 /\ self_df[k].price_anomaly = AtConstruction(k).price_anomaly
        /\ out.op = "get_basic_stats" =>
              out.result.price_anomalies
                 = Cardinality({k \in 1..Len(self_df) : self_df[k].price_anomaly})

\* statistics taken after a change that made a stored flag stale: a surviving
\* row is flagged although its price lies within the band of the current table
C13_Witness ==
    /\ constructed
    /\ out.op = "get_basic_stats"
    /\ Len(self_df) # Len(df)
    /\ \E k \in 1..Len(self_df) :
          survives(k) /\ self_df[k].price_anomaly /\ ~ OutsideBand(self_df, k)

====
